---- MODULE Spec2Model ----
(***************************************************************************)
(* Model of the Battleship engine of server/py/battleship.py.              *)
(*                                                                         *)
(* A cell identifier such as "C7" or "J10" is a Python string; here it is  *)
(* the sequence of its characters, <<"C","7">> or <<"J","1","0">>, so that *)
(* ord(start[0]), int(start[1:]) and f"{chr(row)}{col}" are computed       *)
(* character by character as the code computes them.                       *)
(***************************************************************************)
EXTENDS Integers, Sequences, FiniteSets, TLC

(* ------------------------------------------------------------------ *)
(* Bounds of the exploration (not program constants).                  *)
(* ------------------------------------------------------------------ *)

\* Placements that may take the second entry of get_list_action()
\* instead of the first one.
MaxAltPlacements == 1

\* Shots that may take the first entry of get_list_action() although it
\* is a miss (all other shots aim at an opponent ship cell).
MaxMisses == 1

\* Calls of apply_action with an action of the wrong type for the phase.
MaxMismatched == 1

\* Calls of set_state.
MaxSetStates == 1

\* Calls of get_player_view.
MaxViews == 2

\* Mutations a caller makes on a value get_player_view returned.
MaxMutations == 1

\* Placements that may take the last entry of get_list_action().
MaxLastPlacements == 2

(* ------------------------------------------------------------------ *)
(* Python primitives used by the engine.                               *)
(* ------------------------------------------------------------------ *)

Alphabet ==
  << "A", "B", "C", "D", "E", "F", "G", "H", "I", "J", "K", "L", "M",
     "N", "O", "P", "Q", "R", "S", "T", "U", "V", "W", "X", "Y", "Z" >>

Digits == << "0", "1", "2", "3", "4", "5", "6", "7", "8", "9" >>

\* ord(c) for an upper-case letter: ord('A') = 65.
ord(c) == 64 + (CHOOSE i \in 1..Len(Alphabet) : Alphabet[i] = c)

\* chr(n) for the code of an upper-case letter.
chr(n) == Alphabet[n - 64]

\* str(n) of a non-negative int, as used by the f-strings.
RECURSIVE str(_)
str(n) ==
  IF n < 10 THEN << Digits[n + 1] >>
  ELSE str(n \div 10) \o << Digits[(n % 10) + 1] >>

DigitValue(d) == (CHOOSE i \in 1..Len(Digits) : Digits[i] = d) - 1

\* int(s) of a non-empty string of decimal digits.
RECURSIVE int(_)
int(s) ==
  IF Len(s) = 1 THEN DigitValue(s[1])
  ELSE 10 * int(SubSeq(s, 1, Len(s) - 1)) + DigitValue(s[Len(s)])

\* x in list
in_list(x, list) == \E k \in 1..Len(list) : list[k] = x

\* set(list)
set(list) == { list[k] : k \in 1..Len(list) }

\* None of an Optional[int] (BattleshipGameState.winner).
NoneInt == -1

\* None of an Optional[str] (BattleshipAction.ship_name).
NoneStr == << >>

\* None of an Optional[List[str]] (Ship.location): a list no code path
\* builds, since no cell identifier is the empty string.
NoneList == << << >> >>

(* ------------------------------------------------------------------ *)
(* Data classes.                                                       *)
(* ------------------------------------------------------------------ *)

SET_SHIP == "set_ship"
SHOOT == "shoot"

SETUP == "setup"
RUNNING == "running"
FINISHED == "finished"

BattleshipAction(action_type, ship_name, location) ==
  [action_type |-> action_type, ship_name |-> ship_name, location |-> location]

\* Ship(name=..., length=..., location=...): hits defaults to [].
Ship(name, length, location) ==
  [name |-> name, length |-> length, location |-> location, hits |-> << >>]

PlayerState(name, ships, shots, successful_shots) ==
  [name |-> name, ships |-> ships, shots |-> shots,
   successful_shots |-> successful_shots]

BattleshipGameState(idx_player_active, phase, winner, players) ==
  [idx_player_active |-> idx_player_active, phase |-> phase,
   winner |-> winner, players |-> players]

is_sunk_never(ship) == Len(ship.hits) > ship.length

is_sunk(ship) == Len(ship.hits) = ship.length

register_hit_always(ship, loc) ==
  [ship |-> [ship EXCEPT !.hits = Append(@, loc)], hit |-> TRUE]

\* Ship.register_hit: the ship afterwards and the value returned.
register_hit(ship, loc) ==
  IF in_list(loc, ship.location)
  THEN [ship |-> [ship EXCEPT !.hits = Append(@, loc)], hit |-> TRUE]
  ELSE [ship |-> ship, hit |-> FALSE]

all_ships_sunk_any(player) ==
  \E k \in 1..Len(player.ships) : is_sunk(player.ships[k])

all_ships_sunk(player) ==
  \A k \in 1..Len(player.ships) : is_sunk(player.ships[k])

has_all_ships_placed_atleast4(player) == Len(player.ships) >= 4

has_all_ships_placed(player) == Len(player.ships) = 5

(* ------------------------------------------------------------------ *)
(* The engine: pure functions of the engine object `self`.             *)
(* ------------------------------------------------------------------ *)

ship_lengths == << 2, 3, 3, 4, 5 >>

\* Battleship.__init__
InitEngine ==
  [players |-> << PlayerState("a", << >>, << >>, << >>),
                  PlayerState("b", << >>, << >>, << >>) >>,
   idx_player_active |-> 0,
   phase |-> SETUP,
   winner |-> NoneInt,
   is_ship_placement_phase |-> TRUE]

get_state(self) ==
  BattleshipGameState(self.idx_player_active, self.phase, self.winner,
                      self.players)

\* set_state assigns four attributes; is_ship_placement_phase is not one.
set_state(self, state) ==
  [self EXCEPT !.idx_player_active = state.idx_player_active,
               !.phase = state.phase,
               !.winner = state.winner,
               !.players = state.players]

generate_ship_coordinates_short(start, length, orientation) ==
  LET row == ord(start[1])
      col == int(Tail(start))
      coordinates ==
        IF orientation = "horizontal"
        THEN IF col + length > 10
             THEN << >>
             ELSE [i \in 1..length |-> << chr(row) >> \o str(col + (i - 1))]
        ELSE IF orientation = "vertical"
        THEN IF row + length > ord("J")
             THEN << >>
             ELSE [i \in 1..length |-> << chr(row + (i - 1)) >> \o str(col)]
        ELSE << >>
  IN IF Len(coordinates) > 0 THEN coordinates ELSE NoneList

generate_ship_coordinates(start, length, orientation) ==
  LET row == ord(start[1])
      col == int(Tail(start))
      coordinates ==
        IF orientation = "horizontal"
        THEN IF col + length - 1 > 10
             THEN << >>
             ELSE [i \in 1..length |-> << chr(row) >> \o str(col + (i - 1))]
        ELSE IF orientation = "vertical"
        THEN IF row + length - 1 > ord("J")
             THEN << >>
             ELSE [i \in 1..length |-> << chr(row + (i - 1)) >> \o str(col)]
        ELSE << >>
  IN IF Len(coordinates) > 0 THEN coordinates ELSE NoneList

is_valid_ship_placement_nooverlap(player, length, start, orientation) ==
  generate_ship_coordinates(start, length, orientation) # NoneList

is_valid_ship_placement(player, length, start, orientation) ==
  LET coordinates == generate_ship_coordinates(start, length, orientation)
  IN IF coordinates = NoneList
     THEN FALSE
     ELSE \A k \in 1..Len(player.ships) :
            set(coordinates) \cap set(player.ships[k].location) = {}

\* [f"{chr(r)}{c}" for r in range(ord('A'), ord('J') + 1) for c in range(1, 11)]
all_locations ==
  [k \in 1..((ord("J") + 1 - ord("A")) * (11 - 1)) |->
     << chr(ord("A") + ((k - 1) \div (11 - 1))) >>
       \o str(1 + ((k - 1) % (11 - 1)))]

\* The (loc, orientation) pairs in the order the placement loop tries them.
placement_candidates ==
  [k \in 1..(2 * Len(all_locations)) |->
     [loc |-> all_locations[(k + 1) \div 2],
      orientation |-> IF k % 2 = 1 THEN "horizontal" ELSE "vertical"]]

remaining_shots_all(active_player) == all_locations

remaining_shots(active_player) ==
  SelectSeq(all_locations, LAMBDA loc : ~ in_list(loc, active_player.shots))

get_list_action(self) ==
  LET active_player == self.players[self.idx_player_active + 1]
  IN IF self.is_ship_placement_phase
     THEN LET ship_to_place == Len(active_player.ships)
          IN IF ship_to_place < Len(ship_lengths)
             THEN LET length_of_ship == ship_lengths[ship_to_place + 1]
                      valid ==
                        SelectSeq(placement_candidates,
                          LAMBDA c : is_valid_ship_placement(
                                       active_player, length_of_ship,
                                       c.loc, c.orientation))
                  IN [n \in 1..Len(valid) |->
                        BattleshipAction(SET_SHIP,
                          << "Ship-" >> \o str(length_of_ship),
                          generate_ship_coordinates(
                            valid[n].loc, length_of_ship,
                            valid[n].orientation))]
             ELSE << >>
     ELSE LET shots == remaining_shots(active_player)
          IN [n \in 1..Len(shots) |->
                BattleshipAction(SHOOT, NoneStr, << shots[n] >>)]

\* The SET_SHIP branch of apply_action, before the turn switch.
apply_set_ship(self, action) ==
  LET i == self.idx_player_active + 1
      ship_name == action.ship_name
      ship_length == Len(action.location)
      location == action.location
      placed ==
        IF Len(location) = ship_length
        THEN [self.players EXCEPT
                ![i].ships = Append(@, Ship(ship_name, ship_length, location))]
        ELSE self.players
  IN IF \A p \in 1..Len(placed) : has_all_ships_placed(placed[p])
     THEN [self EXCEPT !.players = placed,
                       !.is_ship_placement_phase = FALSE,
                       !.phase = RUNNING]
     ELSE [self EXCEPT !.players = placed]

\* The SHOOT branch of apply_action, before the turn switch.
apply_shoot(self, action) ==
  LET i == self.idx_player_active + 1
      o == (1 - self.idx_player_active) + 1
      shot_location == action.location[1]
      ships == self.players[o].ships
      struck == { k \in 1..Len(ships) : register_hit(ships[k], shot_location).hit }
      hit == struck # {}
      first == CHOOSE k \in struck : \A j \in struck : k <= j
      shot == [self.players EXCEPT ![i].shots = Append(@, shot_location)]
      after ==
        IF hit
        THEN [shot EXCEPT
                ![o].ships[first] = register_hit(ships[first], shot_location).ship,
                ![i].successful_shots = Append(@, shot_location)]
        ELSE shot
  IN IF all_ships_sunk(after[o])
     THEN [self EXCEPT !.players = after,
                       !.phase = FINISHED,
                       !.winner = self.idx_player_active]
     ELSE [self EXCEPT !.players = after]

apply_action_keep_turn_at_end(self, action) ==
  LET done ==
        IF action.action_type = SET_SHIP THEN apply_set_ship(self, action)
        ELSE IF action.action_type = SHOOT THEN apply_shoot(self, action)
        ELSE self
  IN IF done.phase = FINISHED
     THEN done
     ELSE [done EXCEPT !.idx_player_active = 1 - self.idx_player_active]

apply_action(self, action) ==
  LET done ==
        IF action.action_type = SET_SHIP THEN apply_set_ship(self, action)
        ELSE IF action.action_type = SHOOT THEN apply_shoot(self, action)
        ELSE self
  IN [done EXCEPT !.idx_player_active = 1 - self.idx_player_active]

get_player_view_leak(self, idx_player) ==
  BattleshipGameState(self.idx_player_active, self.phase, self.winner,
    [idx \in 1..Len(self.players) |->
       IF idx - 1 = idx_player
       THEN self.players[idx]
       ELSE LET player == self.players[idx]
            IN PlayerState(player.name,
                 [k \in 1..Len(player.ships) |->
                    Ship(player.ships[k].name, player.ships[k].length,
                         player.ships[k].location)],
                 player.shots, player.successful_shots)])

get_player_view(self, idx_player) ==
  BattleshipGameState(self.idx_player_active, self.phase, self.winner,
    [idx \in 1..Len(self.players) |->
       IF idx - 1 = idx_player
       THEN self.players[idx]
       ELSE LET player == self.players[idx]
            IN PlayerState(player.name,
                 [k \in 1..Len(player.ships) |->
                    Ship(player.ships[k].name, player.ships[k].length, NoneList)],
                 player.shots, player.successful_shots)])

(* ------------------------------------------------------------------ *)
(* The Hangman engine of server/py/hangman.py: pure functions of the   *)
(* engine object `self` (state, wrong_guesses).  A word is the         *)
(* sequence of its characters, a letter is one character.              *)
(* ------------------------------------------------------------------ *)

MAX_WRONG_GUESSES == 8

Lowercase ==
  << "a", "b", "c", "d", "e", "f", "g", "h", "i", "j", "k", "l", "m",
     "n", "o", "p", "q", "r", "s", "t", "u", "v", "w", "x", "y", "z" >>

\* c.upper() of one character: a lower-case letter becomes its capital,
\* every other character stays.
upper_char(c) ==
  IF \E i \in 1..Len(Lowercase) : Lowercase[i] = c
  THEN Alphabet[CHOOSE i \in 1..Len(Lowercase) : Lowercase[i] = c]
  ELSE c

\* s.upper()
upper(s) == [k \in 1..Len(s) |-> upper_char(s[k])]

GuessLetterAction(letter) == [letter |-> letter]

HangmanGameState(word_to_guess, guesses, phase) ==
  [word_to_guess |-> upper(word_to_guess), guesses |-> guesses,
   phase |-> phase]

Hangman_set_state(self, state) ==
  [state |-> [state EXCEPT !.phase = RUNNING], wrong_guesses |-> 0]

\* sorted(all_letters - set(guesses)): Alphabet is in sorted order.
Hangman_get_list_action(self) ==
  LET available(letter) == ~ in_list(letter, self.state.guesses)
      letters == SelectSeq(Alphabet, available)
  IN [n \in 1..Len(letters) |-> GuessLetterAction(letters[n])]

Hangman_apply_action_late(self, action) ==
  LET guessed_letter == upper_char(action.letter)
      guesses == Append(self.state.guesses, guessed_letter)
      wrong == IF ~ in_list(guessed_letter, self.state.word_to_guess)
               THEN self.wrong_guesses + 1
               ELSE self.wrong_guesses
      word == self.state.word_to_guess
      phase == IF wrong > MAX_WRONG_GUESSES
               THEN FINISHED
               ELSE IF \A k \in 1..Len(word) : in_list(word[k], guesses)
                    THEN FINISHED
                    ELSE self.state.phase
  IN [state |-> [self.state EXCEPT !.guesses = guesses, !.phase = phase],
      wrong_guesses |-> wrong]

Hangman_apply_action(self, action) ==
  LET guessed_letter == upper_char(action.letter)
      guesses == Append(self.state.guesses, guessed_letter)
      wrong == IF ~ in_list(guessed_letter, self.state.word_to_guess)
               THEN self.wrong_guesses + 1
               ELSE self.wrong_guesses
      word == self.state.word_to_guess
      phase == IF wrong >= MAX_WRONG_GUESSES
               THEN FINISHED
               ELSE IF \A k \in 1..Len(word) : in_list(word[k], guesses)
                    THEN FINISHED
                    ELSE self.state.phase
  IN [state |-> [self.state EXCEPT !.guesses = guesses, !.phase = phase],
      wrong_guesses |-> wrong]

(* ------------------------------------------------------------------ *)
(* State: the attributes of one Battleship object, the last call made  *)
(* on it, the value a caller holds from its last query, the counters   *)
(* that bound the exploration, and the attributes of one Hangman       *)
(* object (state, wrong_guesses).                                      *)
(* ------------------------------------------------------------------ *)

VARIABLES players, idx_player_active, phase, winner, is_ship_placement_phase,
          lastCall, used, returned, state, wrong_guesses

vars == << players, idx_player_active, phase, winner, is_ship_placement_phase,
           lastCall, used, returned, state, wrong_guesses >>

hangman == << state, wrong_guesses >>

Self ==
  [players |-> players, idx_player_active |-> idx_player_active,
   phase |-> phase, winner |-> winner,
   is_ship_placement_phase |-> is_ship_placement_phase]

Become(self) ==
  /\ players' = self.players
  /\ idx_player_active' = self.idx_player_active
  /\ phase' = self.phase
  /\ winner' = self.winner
  /\ is_ship_placement_phase' = self.is_ship_placement_phase

NoAction == BattleshipAction("none", NoneStr, << >>)

\* The caller holds no returned value.
NoReturn == [op |-> "none", arg |-> << >>, value |-> << >>]

\* Hangman.state = None
NoneState == [word_to_guess |-> << >>, guesses |-> << >>, phase |-> "none"]

Init ==
  /\ players = InitEngine.players
  /\ idx_player_active = InitEngine.idx_player_active
  /\ phase = InitEngine.phase
  /\ winner = InitEngine.winner
  /\ is_ship_placement_phase = InitEngine.is_ship_placement_phase
  /\ lastCall = [op |-> "__init__", arg |-> NoAction, raised |-> "none"]
  /\ used = [alt |-> 0, miss |-> 0, mismatched |-> 0, set |-> 0,
             view |-> 0, mutate |-> 0, last |-> 0]
  /\ returned = NoReturn
  /\ state = NoneState
  /\ wrong_guesses = 0

\* One call of apply_action(action); the code has no raise statement.
\* The caller drops the value of its last query before it moves.
Apply(action) ==
  /\ Become(apply_action(Self, action))
  /\ lastCall' = [op |-> "apply_action", arg |-> action, raised |-> "none"]
  /\ returned' = NoReturn
  /\ UNCHANGED hangman

\* The cells of all ships of a player.
ShipCells(player) ==
  UNION { set(player.ships[k].location) : k \in 1..Len(player.ships) }

\* A shot at this cell would be registered by some opponent ship.
Aimed(self, action) ==
  action.location[1] \in ShipCells(self.players[(1 - self.idx_player_active) + 1])

\* The first offered shot that hits, as a set of at most one action.
Hunt(self) ==
  LET actions == get_list_action(self)
      cells == ShipCells(self.players[(1 - self.idx_player_active) + 1])
      aimed == { n \in 1..Len(actions) : actions[n].location[1] \in cells }
  IN IF aimed = {}
     THEN {}
     ELSE { actions[CHOOSE m \in aimed : \A j \in aimed : m <= j] }

\* The player policy places the first offered ship.
PlaceFirst ==
  /\ is_ship_placement_phase
  /\ LET actions == get_list_action(Self)
     IN /\ Len(actions) > 0
        /\ actions[1].action_type = SET_SHIP
        /\ Apply(actions[1])
  /\ UNCHANGED used

\* The player policy places the second offered ship.
PlaceSecond ==
  /\ is_ship_placement_phase
  /\ used.alt < MaxAltPlacements
  /\ LET actions == get_list_action(Self)
     IN /\ Len(actions) > 1
        /\ actions[2].action_type = SET_SHIP
        /\ Apply(actions[2])
  /\ used' = [used EXCEPT !.alt = @ + 1]

\* The player policy takes the first offered shot that hits.
ShootHit ==
  /\ ~ is_ship_placement_phase
  /\ \E action \in Hunt(Self) : Apply(action)
  /\ UNCHANGED used

\* The player policy takes the first offered shot, which misses.
ShootMiss ==
  /\ ~ is_ship_placement_phase
  /\ used.miss < MaxMisses
  /\ LET actions == get_list_action(Self)
     IN /\ Len(actions) > 0
        /\ actions[1].action_type = SHOOT
        /\ ~ Aimed(Self, actions[1])
        /\ Apply(actions[1])
  /\ used' = [used EXCEPT !.miss = @ + 1]

\* The player policy places the last offered ship; the driver stops
\* asking once the phase is FINISHED.
PlaceLast ==
  /\ is_ship_placement_phase
  /\ phase # FINISHED
  /\ used.last < MaxLastPlacements
  /\ LET actions == get_list_action(Self)
     IN /\ Len(actions) > 0
        /\ actions[Len(actions)].action_type = SET_SHIP
        /\ Apply(actions[Len(actions)])
  /\ used' = [used EXCEPT !.last = @ + 1]

\* The player policy takes the first offered shot, hit or miss; the
\* driver stops asking once the phase is FINISHED.
ShootFirst ==
  /\ ~ is_ship_placement_phase
  /\ phase # FINISHED
  /\ LET actions == get_list_action(Self)
     IN /\ Len(actions) > 0
        /\ actions[1].action_type = SHOOT
        /\ Apply(actions[1])
  /\ UNCHANGED used

\* Actions of the wrong type for the phase: a shot during setup, a
\* placement afterwards.
MismatchedActions(self) ==
  IF self.phase = SETUP
  THEN { BattleshipAction(SHOOT, NoneStr, << cell >>) :
           cell \in { << "A", "1" >>, << "J", "1", "0" >> } }
  ELSE { BattleshipAction(SET_SHIP, << "Ship-" >> \o str(2),
                          generate_ship_coordinates(start, 2, "horizontal")) :
           start \in { << "A", "1" >>, << "J", "1" >> } }

\* A caller applies an action of the wrong type for the phase.
ApplyMismatched ==
  /\ used.mismatched < MaxMismatched
  /\ \E action \in MismatchedActions(Self) : Apply(action)
  /\ used' = [used EXCEPT !.mismatched = @ + 1]

\* The action the default policy takes: the first offered placement, or
\* the first offered shot that hits (a set of at most one action).
DefaultActions(self) ==
  IF self.is_ship_placement_phase
  THEN LET actions == get_list_action(self)
       IN IF Len(actions) > 0 THEN { actions[1] } ELSE {}
  ELSE Hunt(self)

\* One move of the default policy; the engine as it is when the policy
\* is offered nothing.
DefaultMove(self) ==
  LET offered == DefaultActions(self)
  IN IF offered = {}
     THEN self
     ELSE apply_action(self, CHOOSE action \in offered : TRUE)

\* The engine after n moves of the default policy on a new engine, for a
\* driver that stops asking for moves once the phase is FINISHED.
RECURSIVE Played(_)
Played(n) ==
  IF n = 0
  THEN InitEngine
  ELSE LET self == Played(n - 1)
       IN IF self.phase = FINISHED THEN self ELSE DefaultMove(self)

\* Numbers of moves after which the state of a played game is saved:
\* a new game, mid-setup, the first running state, mid-game, finished.
FixtureSteps == { 0, 3, 10, 14, 43 }

Fixtures == [n \in FixtureSteps |-> get_state(Played(n))]

\* A caller restores a saved state with set_state.
SetState ==
  /\ used.set < MaxSetStates
  /\ \E n \in FixtureSteps :
       /\ Become(set_state(Self, Fixtures[n]))
       /\ lastCall' = [op |-> "set_state", arg |-> Fixtures[n], raised |-> "none"]
  /\ used' = [used EXCEPT !.set = @ + 1]
  /\ returned' = NoReturn
  /\ UNCHANGED hangman

\* A caller asks for the view of player idx and keeps the value.
GetPlayerView ==
  /\ used.view < MaxViews
  /\ \E idx \in { 0, 1 } :
       /\ returned' = [op |-> "get_player_view", arg |-> idx,
                       value |-> get_player_view(Self, idx)]
       /\ lastCall' = [op |-> "get_player_view", arg |-> idx, raised |-> "none"]
  /\ used' = [used EXCEPT !.view = @ + 1]
  /\ UNCHANGED << players, idx_player_active, phase, winner,
                  is_ship_placement_phase, hangman >>

\* list.append(cell) on the shots list of player p, or on the hits list
\* of that player's first ship.
appended(list_of_players, p, which, cell) ==
  IF which = "shots"
  THEN [list_of_players EXCEPT ![p].shots = Append(@, cell)]
  ELSE [list_of_players EXCEPT ![p].ships[1].hits = Append(@, cell)]

\* A caller appends a cell to a list inside the view it holds.  In
\* get_player_view the requesting player's entry is the engine's own
\* PlayerState (players_view.append(player)), so its shots list and its
\* Ship objects are the engine's; the opponent's entry is built from new
\* Ship and PlayerState objects whose list fields are new lists.
MutateView ==
  /\ returned.op = "get_player_view"
  /\ used.mutate < MaxMutations
  /\ \E whose \in { "own", "opponent" }, which \in { "shots", "hits" } :
       LET idx == returned.arg
           p == IF whose = "own" THEN idx + 1 ELSE (1 - idx) + 1
           cell == << "J", "1", "0" >>
       IN /\ which = "hits" => Len(returned.value.players[p].ships) > 0
          /\ returned' = [returned EXCEPT
                            !.value.players = appended(@, p, which, cell)]
          /\ players' = IF whose = "own"
                        THEN appended(players, p, which, cell)
                        ELSE players
          /\ lastCall' = [op |-> "mutate_view", arg |-> << whose, which >>,
                          raised |-> "none"]
  /\ used' = [used EXCEPT !.mutate = @ + 1]
  /\ UNCHANGED << idx_player_active, phase, winner, is_ship_placement_phase,
                  hangman >>

\* A call of generate_ship_coordinates for a start cell of the board, a
\* ship length and an orientation.
GenerateLine ==
  /\ \E start \in set(all_locations), length \in set(ship_lengths),
        orientation \in { "horizontal", "vertical" } :
       LET arg == [start |-> start, length |-> length,
                   orientation |-> orientation]
       IN /\ returned' =
               [op |-> "generate_ship_coordinates", arg |-> arg,
                value |-> generate_ship_coordinates(start, length, orientation)]
          /\ lastCall' = [op |-> "generate_ship_coordinates", arg |-> arg,
                          raised |-> "none"]
  /\ UNCHANGED << players, idx_player_active, phase, winner,
                  is_ship_placement_phase, used, hangman >>

Next == PlaceFirst \/ PlaceSecond \/ ShootHit \/ ShootMiss

\* Play of offered actions from a new engine.
Spec == Init /\ [][Next]_vars

NextRaw == PlaceFirst \/ ShootHit \/ ApplyMismatched

\* Default play in which a caller also applies actions of the wrong type.
SpecRaw == Init /\ [][NextRaw]_vars

NextSet == PlaceFirst \/ ShootHit \/ ShootMiss \/ SetState

\* Default play in which a caller also restores saved states.
SpecSet == Init /\ [][NextSet]_vars

NextView == PlaceFirst \/ ShootHit \/ GetPlayerView \/ MutateView

\* Default play in which a caller also asks for views and changes them.
SpecView == Init /\ [][NextView]_vars

NextLine == GenerateLine

\* Calls of generate_ship_coordinates on every start cell, length and
\* orientation.
SpecLine == Init /\ [][NextLine]_vars

HangmanSelf == [state |-> state, wrong_guesses |-> wrong_guesses]

battleship ==
  << players, idx_player_active, phase, winner, is_ship_placement_phase >>

\* Words a game is started with: the word of the main block, a word
\* with a repeated letter, a word with a character that is no letter,
\* and the empty word.
Words ==
  { << "D", "e", "v", "O", "p", "s" >>, << "Z", "o", "o" >>,
    << "a", "-", "b" >>, << >> }

\* A caller builds a state with an empty guesses list and hands it to
\* set_state of a new Hangman object.
HangmanSetState ==
  /\ state = NoneState
  /\ \E word \in Words, ph \in { SETUP, RUNNING, FINISHED } :
       LET game_state == HangmanGameState(word, << >>, ph)
           self == Hangman_set_state(HangmanSelf, game_state)
       IN /\ state' = self.state
          /\ wrong_guesses' = self.wrong_guesses
          /\ lastCall' = [op |-> "Hangman.set_state", arg |-> game_state,
                          raised |-> "none"]
  /\ UNCHANGED << battleship, used, returned >>

\* One call of Hangman.apply_action(action).
HangmanApply(action) ==
  LET self == Hangman_apply_action(HangmanSelf, action)
  IN /\ state' = self.state
     /\ wrong_guesses' = self.wrong_guesses
     /\ lastCall' = [op |-> "Hangman.apply_action", arg |-> action,
                     raised |-> "none"]
     /\ UNCHANGED << battleship, used, returned >>

\* The game loop while the phase is RUNNING; the player takes the first
\* offered letter.
GuessFirst ==
  /\ state.phase = RUNNING
  /\ LET actions == Hangman_get_list_action(HangmanSelf)
     IN /\ Len(actions) > 0
        /\ HangmanApply(actions[1])

\* The game loop while the phase is RUNNING; the player takes the first
\* offered letter that is in the word.
GuessInWord ==
  /\ state.phase = RUNNING
  /\ LET actions == Hangman_get_list_action(HangmanSelf)
         good == { n \in 1..Len(actions) :
                     in_list(actions[n].letter, state.word_to_guess) }
     IN /\ good # {}
        /\ HangmanApply(actions[CHOOSE n \in good : \A m \in good : n <= m])

NextHangman == HangmanSetState \/ GuessFirst \/ GuessInWord

\* Games of Hangman played with offered letters while the phase is
\* RUNNING.
SpecHangman == Init /\ [][NextHangman]_vars

NextLong == PlaceFirst \/ PlaceLast \/ ShootFirst

\* A game in which every move is an offered action and which stops when
\* the phase is FINISHED.
SpecLong == Init /\ [][NextLong]_vars

(* ------------------------------------------------------------------ *)
(* Vocabulary of the claims: the board as the specification describes  *)
(* it, rows A..J and columns 1..10, written out cell by cell.          *)
(* ------------------------------------------------------------------ *)

RowNames == << "A", "B", "C", "D", "E", "F", "G", "H", "I", "J" >>

ColNames ==
  << << "1" >>, << "2" >>, << "3" >>, << "4" >>, << "5" >>,
     << "6" >>, << "7" >>, << "8" >>, << "9" >>, << "1", "0" >> >>

\* The identifier of the cell in row r, column c (both 1..10).
CellName(r, c) == << RowNames[r] >> \o ColNames[c]

BoardCells == { CellName(r, c) : r \in 1..10, c \in 1..10 }

\* The L cells from (r, c) along increasing column or increasing row.
Line(r, c, L, orientation) ==
  [i \in 1..L |->
     IF orientation = "horizontal" THEN << r, c + (i - 1) >>
     ELSE << r + (i - 1), c >>]

Fits(line) ==
  \A i \in 1..Len(line) : line[i][1] \in 1..10 /\ line[i][2] \in 1..10

Named(line) == [i \in 1..Len(line) |-> CellName(line[i][1], line[i][2])]

ActivePlayer == players[idx_player_active + 1]
Opponent == players[(1 - idx_player_active) + 1]

\* The player who made the last call of apply_action, and the other one
\* (apply_action ends by switching the turn).
Mover == players[(1 - idx_player_active) + 1]
Target == players[idx_player_active + 1]

LastWas(action_type) ==
  /\ lastCall.op = "apply_action"
  /\ lastCall.arg.action_type = action_type

\* Some cell of some ship of the player has not been hit.
UnhitRemains(player) ==
  \E k \in 1..Len(player.ships) :
    \E cell \in set(player.ships[k].location) :
      cell \notin set(player.ships[k].hits)

Mismatched(ph, action) ==
  \/ action.action_type = SHOOT /\ ph = SETUP
  \/ action.action_type = SET_SHIP /\ ph \in { RUNNING, FINISHED }

(* ------------------------------------------------------------------ *)
(* Claims.                                                             *)
(* ------------------------------------------------------------------ *)

\* C1: an apply_action call whose action type does not match the phase
\* (a shot in setup, a placement in running or finished) raises
\* InvalidAction and changes nothing: players (ships and shots), phase,
\* winner and active-player index are as before the call.
C1_MismatchedActionIsRejected ==
  [][ (lastCall'.op = "apply_action" /\ Mismatched(phase, lastCall'.arg))
        => /\ lastCall'.raised = "InvalidAction"
           /\ UNCHANGED << players, phase, winner, idx_player_active >> ]_vars

\* C2: in every state whose phase is finished, reached by applying offered
\* actions from the initial state, get_list_action returns the empty list.
C2_FinishedOffersNothing ==
  phase = FINISHED => get_list_action(Self) = << >>

\* C3: a shot applied in running leaves the phase running if some ship of
\* the opponent still has an unhit cell afterwards, and otherwise sets the
\* phase to finished with the shooter as winner.
C3_FinishedExactlyOnLastSink ==
  [][ (phase = RUNNING /\ lastCall'.op = "apply_action"
       /\ lastCall'.arg.action_type = SHOOT)
        => IF UnhitRemains(players'[(1 - idx_player_active) + 1])
           THEN phase' = RUNNING
           ELSE phase' = FINISHED /\ winner' = idx_player_active ]_vars

\* A shot has just ended the game: the target has no unhit cell left, and
\* the game had a miss in it.
C3_Witness ==
  /\ LastWas(SHOOT)
  /\ phase = FINISHED
  /\ winner = 1 - idx_player_active
  /\ ~ UnhitRemains(Target)
  /\ UnhitRemains(Mover)
  /\ used.miss > 0

\* C4: the phase is setup as long as some player has fewer than 5 ships,
\* and it is running right after the placement that gives both players 5
\* ships (the 10th), not earlier and not later.
C4_RunningExactlyAtTenthPlacement ==
  LET incomplete == \E p \in 1..2 : Len(players[p].ships) < 5
      placed == Len(players[1].ships) + Len(players[2].ships)
  IN /\ incomplete => phase = SETUP
     /\ ~ incomplete => phase # SETUP
     /\ (LastWas(SET_SHIP) /\ ~ incomplete) => (phase = RUNNING /\ placed = 10)
     /\ phase = SETUP => placed < 10

\* The 10th placement has just been applied.
C4_Witness ==
  /\ LastWas(SET_SHIP)
  /\ Len(players[1].ships) = 5
  /\ Len(players[2].ships) = 5
  /\ phase = RUNNING
  /\ used.alt > 0

\* C5: in every state reachable by apply_action, winner is set (0 or 1) if
\* and only if the phase is finished.
C5_WinnerSetIffFinished ==
  /\ winner \in { NoneInt, 0, 1 }
  /\ (winner # NoneInt) <=> (phase = FINISHED)

\* C6: after set_state(s) with a consistent state s, get_state returns s
\* and get_list_action returns what the engine that reached s by play
\* returns.
C6_SetStateLeavesEngineConsistent ==
  lastCall.op = "set_state"
    => /\ get_state(Self) = lastCall.arg
       /\ \A n \in FixtureSteps :
            Fixtures[n] = lastCall.arg
              => get_list_action(Self) = get_list_action(Played(n))

\* C7: during setup, with k ships of the active player placed and
\* L = [2,3,3,4,5][k], the placements get_list_action returns are exactly
\* the L-cell lines (from any start cell, horizontal or vertical) that fit
\* on the 10x10 board and share no cell with a ship the active player has
\* placed.
C7_SetupOffersExactlyTheFreeLines ==
  phase = SETUP
    => LET k == Len(ActivePlayer.ships)
           L == << 2, 3, 3, 4, 5 >>[k + 1]
           own == ShipCells(ActivePlayer)
           lines == { Line(r, c, L, o) :
                        r \in 1..10, c \in 1..10,
                        o \in { "horizontal", "vertical" } }
           free == { Named(line) :
                       line \in { l \in lines :
                                    Fits(l) /\ set(Named(l)) \cap own = {} } }
           actions == get_list_action(Self)
       IN /\ \A n \in 1..Len(actions) : actions[n].action_type = SET_SHIP
          /\ { actions[n].location : n \in 1..Len(actions) } = free

\* During setup the active player has placed ships, and some line that
\* fits on the board is not offered.
C7_Witness ==
  /\ phase = SETUP
  /\ Len(ActivePlayer.ships) = 3
  /\ used.alt > 0
  /\ LET actions == get_list_action(Self)
     IN /\ \A n \in 1..Len(actions) :
             set(actions[n].location) \cap ShipCells(ActivePlayer) = {}
        /\ Named(Line(1, 1, 4, "vertical"))
             \notin { actions[n].location : n \in 1..Len(actions) }
        /\ Named(Line(2, 2, 4, "vertical"))
             \in { actions[n].location : n \in 1..Len(actions) }

\* C8: in every running state reached by play of offered actions,
\* get_list_action returns exactly one shot for every board cell that is
\* not in the active player's shots, none for a cell in them, and no
\* action of another type.
C8_RunningOffersExactlyTheUnshotCells ==
  phase = RUNNING
    => LET actions == get_list_action(Self)
           offered(cell) ==
             Cardinality({ n \in 1..Len(actions) :
                             actions[n].location = << cell >> })
       IN /\ \A n \in 1..Len(actions) :
               /\ actions[n].action_type = SHOOT
               /\ Len(actions[n].location) = 1
               /\ actions[n].location[1] \in BoardCells
          /\ \A cell \in BoardCells :
               offered(cell) = IF cell \in set(ActivePlayer.shots) THEN 0 ELSE 1

\* A running state in which the active player has already shot.
C8_Witness ==
  /\ phase = RUNNING
  /\ Len(ActivePlayer.shots) >= 3
  /\ Len(get_list_action(Self)) = 100 - Len(ActivePlayer.shots)

\* C9: after a shot at a cell, the cell is in the shooter's shots, and it
\* is in the shooter's successful_shots if and only if some ship of the
\* opponent has the cell in its location.
C9_ShotRecordedAndHitIffOnShip ==
  LastWas(SHOOT)
    => LET cell == lastCall.arg.location[1]
       IN /\ in_list(cell, Mover.shots)
          /\ in_list(cell, Mover.successful_shots)
               <=> \E k \in 1..Len(Target.ships) :
                     in_list(cell, Target.ships[k].location)

\* A shot has just missed, after an earlier shot of the same player hit.
C9_Witness ==
  /\ LastWas(SHOOT)
  /\ ~ in_list(lastCall.arg.location[1], Mover.successful_shots)
  /\ Len(Mover.successful_shots) > 0
  /\ Len(Target.ships) = 5

\* Other fleets with the names and lengths of the given ships: every ship
\* moved to a row of its own from row F on, unhit or hit in every cell.
OtherGeometries(ships) ==
  LET moved(k) == Named(Line(5 + k, 1, ships[k].length, "horizontal"))
  IN { [k \in 1..Len(ships) |->
          [ships[k] EXCEPT !.location = moved(k),
                           !.hits = IF allhit THEN moved(k) ELSE << >>]] :
       allhit \in BOOLEAN }

\* C10: get_player_view(idx) is the same for engine states that differ
\* only in the locations and hits of the ships of player 1 - idx; in it
\* every opponent ship has no location and no hits, and the opponent's
\* shots and successful_shots are those of the engine.
C10_ViewWithholdsOpponentGeometry ==
  \A idx \in { 0, 1 } :
    LET o == (1 - idx) + 1
        view == get_player_view(Self, idx)
    IN /\ \A k \in 1..Len(view.players[o].ships) :
            /\ view.players[o].ships[k].location = NoneList
            /\ view.players[o].ships[k].hits = << >>
            /\ view.players[o].ships[k].name = players[o].ships[k].name
            /\ view.players[o].ships[k].length = players[o].ships[k].length
       /\ Len(view.players[o].ships) = Len(players[o].ships)
       /\ view.players[o].shots = players[o].shots
       /\ view.players[o].successful_shots = players[o].successful_shots
       /\ \A other \in OtherGeometries(players[o].ships) :
            get_player_view([Self EXCEPT !.players[o].ships = other], idx) = view

\* Both fleets are placed and each has a ship that has been hit.
C10_Witness ==
  /\ phase = RUNNING
  /\ \A p \in 1..2 :
       /\ Len(players[p].ships) = 5
       /\ \E k \in 1..5 : Len(players[p].ships[k].hits) > 0
  /\ \E other \in OtherGeometries(players[2].ships) : other # players[2].ships

\* C11: the value get_player_view(idx) returns is a read-only snapshot:
\* changing any part of it (the requesting player's own PlayerState, a
\* ship's hits, the shots lists) never changes what get_state() returns,
\* and two get_player_view(idx) calls with no apply_action in between
\* return identical results.
C11_ViewIsReadOnlySnapshot ==
  [][ /\ lastCall'.op = "mutate_view"
        => UNCHANGED << players, idx_player_active, phase, winner >>
      /\ (lastCall.op = "get_player_view" /\ lastCall'.op = "get_player_view"
          /\ lastCall'.arg = lastCall.arg)
        => returned'.value = returned.value ]_vars

\* The number of actions applied so far in a play of offered actions:
\* each placement adds one ship, each shot one entry of a shots list.
Applied ==
  Len(players[1].ships) + Len(players[2].ships)
    + Len(players[1].shots) + Len(players[2].shots)

\* C12: every applied action (placement or shot, hit or miss, ending the
\* game or applied after it ended) switches the active player, so after n
\* applied actions the active index is n mod 2, placements alternate
\* 0,1,0,1,... and player 0 is active when running begins.
C12_TurnSwitchesOnEveryAction ==
  /\ idx_player_active = Applied % 2
  /\ Len(players[1].ships) - Len(players[2].ships) \in { 0, 1 }
  /\ (LastWas(SET_SHIP) /\ phase = RUNNING) => idx_player_active = 0
  /\ LastWas(SET_SHIP) =>
       Len(Mover.ships) = Len(Target.ships) + idx_player_active

\* Both fleets are sunk: the game ended and actions were applied after.
C12_Witness ==
  /\ phase = FINISHED
  /\ LastWas(SHOOT)
  /\ ~ UnhitRemains(players[1])
  /\ ~ UnhitRemains(players[2])
  /\ used.miss > 0

\* C13: for every start cell of the board and every length in 2..5,
\* generate_ship_coordinates returns None for horizontal if and only if
\* col(start) + length - 1 > 10, for vertical if and only if row(start) +
\* length - 1 lies past row J, and otherwise exactly the length cells from
\* start along increasing column or increasing row.
C13_LineIsNoneExactlyWhenItLeavesTheBoard ==
  returned.op = "generate_ship_coordinates"
    => LET start == returned.arg.start
           L == returned.arg.length
           o == returned.arg.orientation
           r == CHOOSE x \in 1..10 : \E y \in 1..10 : CellName(x, y) = start
           c == CHOOSE y \in 1..10 : CellName(r, y) = start
           past == IF o = "horizontal" THEN c + L - 1 > 10 ELSE r + L - 1 > 10
       IN /\ L \in 2..5
          /\ (returned.value = NoneList) <=> past
          /\ ~ past => returned.value = Named(Line(r, c, L, o))

\* A line that ends exactly in row J was returned.
C13_Witness ==
  /\ returned.op = "generate_ship_coordinates"
  /\ returned.arg.orientation = "vertical"
  /\ returned.arg.length = 4
  /\ returned.value = Named(Line(7, 10, 4, "vertical"))

NoDuplicates(list) == Cardinality(set(list)) = Len(list)

\* C14: in every state reached by play of offered actions every ship has
\* hits within its location, length equal to the number of its cells and
\* no cell twice in hits, so that is_sunk is true exactly when every cell
\* of the ship has been hit.
C14_ShipHitsWithinLocation ==
  \A p \in 1..2 :
    \A k \in 1..Len(players[p].ships) :
      LET ship == players[p].ships[k]
      IN /\ set(ship.hits) \subseteq set(ship.location)
         /\ ship.length = Len(ship.location)
         /\ NoDuplicates(ship.hits)
         /\ NoDuplicates(ship.location)
         /\ is_sunk(ship) <=> set(ship.location) \subseteq set(ship.hits)

\* A fleet with a sunk ship, a partly hit ship and an unhit ship.
C14_Witness ==
  \E p \in 1..2 :
    /\ Len(players[p].ships) = 5
    /\ \E k \in 1..5 : is_sunk(players[p].ships[k])
    /\ \E k \in 1..5 :
         /\ Len(players[p].ships[k].hits) > 0
         /\ ~ is_sunk(players[p].ships[k])
    /\ \E k \in 1..5 : Len(players[p].ships[k].hits) = 0

\* C15: in every state reached by play of offered actions each player has
\* at most 5 ships, their lengths in list order are the first entries of
\* [2,3,3,4,5], every ship cell is on the board and no cell belongs to two
\* ships of one player.
C15_FleetsAreWellFormed ==
  \A p \in 1..2 :
    LET ships == players[p].ships
    IN /\ Len(ships) <= 5
       /\ \A k \in 1..Len(ships) :
            /\ ships[k].length = << 2, 3, 3, 4, 5 >>[k]
            /\ set(ships[k].location) \subseteq BoardCells
       /\ \A j \in 1..Len(ships), k \in 1..Len(ships) :
            j # k => set(ships[j].location) \cap set(ships[k].location) = {}

\* Both fleets are complete and one of them has a ship that was not the
\* first one offered.
C15_Witness ==
  /\ Len(players[1].ships) = 5
  /\ Len(players[2].ships) = 5
  /\ used.alt > 0
  /\ players[1].ships # players[2].ships

\* C16: in every state reached by play of offered actions (also those
\* offered after finished) no shots list holds a cell twice, a shots list
\* grows by one with every shot its player applies and not otherwise, and
\* successful_shots is within shots.
C16_ShotsHaveNoDuplicates ==
  [][ lastCall'.op = "apply_action"
        => LET i == idx_player_active + 1
               o == (1 - idx_player_active) + 1
               fired == IF lastCall'.arg.action_type = SHOOT THEN 1 ELSE 0
           IN /\ \A p \in 1..2 :
                   /\ NoDuplicates(players'[p].shots)
                   /\ set(players'[p].successful_shots)
                        \subseteq set(players'[p].shots)
              /\ Len(players'[i].shots) = Len(players[i].shots) + fired
              /\ Len(players'[o].shots) = Len(players[o].shots) ]_vars

\* A shot was applied after the game had ended, and some shot missed.
C16_Witness ==
  /\ phase = FINISHED
  /\ LastWas(SHOOT)
  /\ winner = idx_player_active
  /\ Len(Mover.successful_shots) < Len(Mover.shots)
  /\ Len(Mover.shots) > 0
  /\ Len(Target.shots) > 0

\* C17: once the phase is finished, applying a further offered action
\* leaves the phase finished and the winner as it was set when the game
\* first became finished.
C17_FinishedIsTerminal ==
  [][ (phase = FINISHED /\ lastCall'.op = "apply_action")
        => (phase' = FINISHED /\ winner' = winner) ]_vars

\* C18: a shot applied in running appends the cell to the shooter's shots
\* and switches the turn; a miss changes nothing else; a hit also appends
\* the cell to the shooter's successful_shots and to the hits of the first
\* opponent ship that contains it; no location, name or length, neither
\* ship list's membership, the shooter's own ships' hits nor the
\* opponent's shots and successful_shots change.
C18_ShotFrame ==
  [][ (phase = RUNNING /\ lastCall'.op = "apply_action"
       /\ lastCall'.arg.action_type = SHOOT)
        => LET i == idx_player_active + 1
               o == (1 - idx_player_active) + 1
               cell == lastCall'.arg.location[1]
               ships == players[o].ships
               containing == { k \in 1..Len(ships) :
                                 cell \in set(ships[k].location) }
           IN /\ players'[i].shots = Append(players[i].shots, cell)
              /\ idx_player_active' = 1 - idx_player_active
              /\ players'[i].ships = players[i].ships
              /\ players'[i].name = players[i].name
              /\ players'[o].name = players[o].name
              /\ players'[o].shots = players[o].shots
              /\ players'[o].successful_shots = players[o].successful_shots
              /\ is_ship_placement_phase' = is_ship_placement_phase
              /\ IF containing = {}
                 THEN /\ players'[o].ships = ships
                      /\ players'[i].successful_shots
                           = players[i].successful_shots
                      /\ phase' = phase
                      /\ winner' = winner
                 ELSE LET first == CHOOSE k \in containing :
                                     \A j \in containing : k <= j
                      IN /\ players'[i].successful_shots
                              = Append(players[i].successful_shots, cell)
                         /\ players'[o].ships
                              = [ships EXCEPT ![first].hits = Append(@, cell)] ]_vars

\* A shot in running has just hit a ship that is not the first of the
\* opponent's list, after an earlier shot of the game missed.
C18_Witness ==
  /\ LastWas(SHOOT)
  /\ phase = RUNNING
  /\ used.miss > 0
  /\ \E k \in 2..Len(Target.ships) :
       /\ Len(Target.ships[k].hits) > 0
       /\ Target.ships[k].hits[Len(Target.ships[k].hits)]
            = lastCall.arg.location[1]

Shots == Len(players[1].shots) + Len(players[2].shots)

Placements == Len(players[1].ships) + Len(players[2].ships)

\* C19: a game in which every move is an offered action and which stops
\* at finished never deadlocks and terminates: while the phase is setup or
\* running the offered list is non-empty and its first entry is a move of
\* the phase, every move adds one placement or one shot, and there are
\* never more than 10 placements and 199 shots, the 199th shot finishing
\* the game at the latest.
C19_PolicyGameTerminates ==
  /\ [] /\ phase \in { SETUP, RUNNING }
             => LET actions == get_list_action(Self)
                IN /\ actions # << >>
                   /\ is_ship_placement_phase <=> phase = SETUP
                   /\ actions[1].action_type
                        = IF phase = SETUP THEN SET_SHIP ELSE SHOOT
        /\ Placements <= 10
        /\ Shots <= 199
        /\ Shots = 199 => phase = FINISHED
  /\ [][ /\ phase # FINISHED
         /\ Placements' + Shots' = Placements + Shots + 1 ]_vars

\* The longest game: finished by the 199th shot, the 100th of player 0.
C19_Witness ==
  /\ phase = FINISHED
  /\ Placements = 10
  /\ Shots = 199
  /\ winner = 0
  /\ Len(players[1].shots) = 100
  /\ Len(players[2].shots) = 99

\* Every letter of the word is in guesses.
Guessed ==
  \A k \in 1..Len(state.word_to_guess) :
    in_list(state.word_to_guess[k], state.guesses)

\* C20: Hangman, after set_state with an empty guesses list and with
\* offered letters applied only while the phase is running: no letter is
\* guessed twice, wrong_guesses is never above 8, and the phase is
\* finished after exactly the apply_action call after which
\* wrong_guesses is 8 or every letter of the word is in guesses.
C20_HangmanEndsExactlyWhenWonOrLost ==
  /\ [] (state # NoneState
           => /\ NoDuplicates(state.guesses)
              /\ wrong_guesses <= MAX_WRONG_GUESSES
              /\ lastCall.op = "Hangman.set_state"
                   => (state.phase = RUNNING /\ wrong_guesses = 0)
              /\ lastCall.op = "Hangman.apply_action"
                   => (state.phase = FINISHED
                         <=> (wrong_guesses = 8 \/ Guessed)))
  /\ [][ lastCall'.op = "Hangman.apply_action"
           => /\ state.phase = RUNNING
              /\ Len(state'.guesses) = Len(state.guesses) + 1
              /\ state'.phase \in { RUNNING, FINISHED } ]_vars

\* A lost game: eight wrong letters, some letters of the word found, not
\* all of them.
C20_Witness ==
  /\ lastCall.op = "Hangman.apply_action"
  /\ state.phase = FINISHED
  /\ wrong_guesses = 8
  /\ ~ Guessed
  /\ \E k \in 1..Len(state.guesses) :
       in_list(state.guesses[k], state.word_to_guess)

====
